---- MODULE Spec2Model ----
(***************************************************************************)
(* Model of the uncrustify wrapper scripts                                 *)
(*   scripts/uncrustify/format.py     (procedural script, format_cpp)      *)
(*   scripts/uncrustify/formatter.py  (class Formatter, Formatter.run)     *)
(*                                                                         *)
(* A path is a record [abs, parts]; parts is a sequence of segments and a  *)
(* segment is a sequence of one-character strings, so that as_posix(),     *)
(* str.startswith() and the glob patterns work on characters.              *)
(***************************************************************************)
EXTENDS Integers, Sequences, FiniteSets, TLC

(* ------------------------------ bounds --------------------------------- *)
MaxFiles == 2        \* entries of the project tree
MaxExit  == 2        \* exit codes of the external tool are 0..MaxExit
MaxTime  == 1        \* values of datetime.now(), in seconds
MaxRaceFiles == 1    \* entries of the project tree when two invocations run at once

(* --------------------------- path segments ----------------------------- *)
DotDot == <<".", ".">>
S_w      == <<"w">>
S_s      == <<"s">>
S_git    == <<".", "g", "i", "t">>
S_bat    == <<"b", "a", "t">>
S_build  == <<"b", "u", "i", "l", "d">>
S_certs  == <<"c", "e", "r", "t", "s">>
S_docker == <<"d", "o", "c", "k", "e", "r">>
S_res    == <<"r", "e", "s">>
S_scripts == <<"s", "c", "r", "i", "p", "t", "s">>
S_release == <<"r", "e", "l", "e", "a", "s", "e">>
S_tiny   == <<"t", "i", "n", "y", "-", "A", "E", "S", "-", "c">>
S_tests  == <<"t", "e", "s", "t", "s">>
S_src    == <<"s", "r", "c">>
S_foo_cpp == <<"f", "o", "o", ".", "c", "p", "p">>
S_bar_h  == <<"b", "a", "r", ".", "h">>
S_cfg    == <<"u", "n", "c", "r", "u", "s", "t", "i", "f", "y", ".", "c", "f", "g">>
S_configs == <<"c", "o", "n", "f", "i", "g", "s">>
S_a_cpp  == <<"a", ".", "c", "p", "p">>
S_l_cpp  == <<"l", ".", "c", "p", "p">>
S_x_c    == <<"x", ".", "c">>
S_y_h    == <<"y", ".", "h">>
S_n_txt  == <<"n", ".", "t", "x", "t">>
S_t_cpp  == <<"t", ".", "c", "p", "p">>
S_buildx == <<"b", "u", "i", "l", "d", "x">>
S_build1 == <<"b", "u", "i", "l", "d", "1">>

(* ------------------------------- pathlib ------------------------------- *)
Path(parts) == [abs |-> FALSE, parts |-> parts]
AbsPath(parts) == [abs |-> TRUE, parts |-> parts]

\* Path.joinpath: an absolute right operand replaces the left one
joinpath(a, b) == IF b.abs THEN b ELSE [abs |-> a.abs, parts |-> a.parts \o b.parts]

RECURSIVE Collapse(_, _)
\* the ".." handling of Path.resolve(): each ".." drops the segment before it
Collapse(done, rest) ==
    IF rest = <<>> THEN done
    ELSE IF Head(rest) = DotDot
         THEN Collapse(IF done = <<>> THEN <<>> ELSE SubSeq(done, 1, Len(done) - 1), Tail(rest))
         ELSE Collapse(Append(done, Head(rest)), Tail(rest))

\* Path.resolve() in a tree: collapse "..", then follow a symbolic link
resolve(tree, p) ==
    LET q == [abs |-> p.abs, parts |-> Collapse(<<>>, p.parts)]
        hit == {e \in tree : e.path = q}
    IN IF hit = {} THEN q ELSE (CHOOSE e \in hit : TRUE).target

RECURSIVE JoinSegs(_)
JoinSegs(parts) ==
    IF parts = <<>> THEN <<>>
    ELSE IF Len(parts) = 1 THEN Head(parts)
    ELSE Head(parts) \o <<"/">> \o JoinSegs(Tail(parts))

\* Path.as_posix(): the characters of the path
as_posix(p) == IF p.abs THEN <<"/">> \o JoinSegs(p.parts) ELSE JoinSegs(p.parts)

\* str.startswith
startswith(s, prefix) == Len(prefix) <= Len(s) /\ SubSeq(s, 1, Len(prefix)) = prefix

\* fnmatch of the pattern "*" + suffix against a file name
endswith(s, suffix) ==
    Len(suffix) <= Len(s) /\ SubSeq(s, Len(s) - Len(suffix) + 1, Len(s)) = suffix

(* --------------------------- module constants -------------------------- *)
PATH_OF_THIS_FILE == AbsPath(<<S_w, S_s>>)

evaluate_relative_path(tree, path) == resolve(tree, joinpath(PATH_OF_THIS_FILE, path))

SEARCH_PATH == evaluate_relative_path({}, Path(<<DotDot>>))

CONFIG_PATH(v) ==
    IF v = "format" THEN evaluate_relative_path({}, Path(<<S_cfg>>))
    ELSE evaluate_relative_path({}, Path(<<S_configs, S_cfg>>))

StaticExcludeDirectories ==
    << Path(<<DotDot, S_git>>), Path(<<DotDot, S_bat>>), Path(<<DotDot, S_build>>),
       Path(<<DotDot, S_certs>>), Path(<<DotDot, S_docker>>), Path(<<DotDot, S_res>>),
       Path(<<DotDot, S_scripts>>), Path(<<DotDot, S_release>>), Path(<<DotDot, S_tiny>>) >>

EXCLUDE_FILES ==
    << Path(<<DotDot, S_src, S_foo_cpp>>), Path(<<DotDot, S_src, S_bar_h>>) >>

UNCRUSTIFY_VERSION_TO_CHECK == <<"Uncrustify-0.72.0_f">>


temp_file_name == "uncrustify_temp.txt"

(* ------------------------------ file selection ------------------------- *)
RECURSIVE SetToSeq(_)
\* the order in which a directory walk yields a set of entries
SetToSeq(S) ==
    IF S = {} THEN <<>>
    ELSE LET e == CHOOSE x \in S : TRUE IN <<e>> \o SetToSeq(S \ {e})

Name(p) == p.parts[Len(p.parts)]

\* Path(root).glob("**/*" + suffix): the entries below root whose name ends with suffix
glob(tree, root, suffix) ==
    SetToSeq({e.path : e \in {x \in tree :
        /\ Len(x.path.parts) > Len(root.parts)
        /\ SubSeq(x.path.parts, 1, Len(root.parts)) = root.parts
        /\ endswith(Name(x.path), suffix)}})

\* Path("../tests/").glob("**/build*") run from the directory of the script:
\* every directory or file below tests whose name starts with "build"
GlobBuild(tree) ==
    LET base == <<DotDot, S_tests>>
        from == Len(SEARCH_PATH.parts) + 1
        under == {e \in tree : /\ Len(e.path.parts) > from
                               /\ e.path.parts[from] = S_tests}
        rels == UNION {{SubSeq(e.path.parts, from + 1, k) : k \in (from + 1)..Len(e.path.parts)}
                       : e \in under}
    IN SetToSeq({Path(base \o r) : r \in {x \in rels : startswith(x[Len(x)], S_build)}})

RECURSIVE AnyDirectory(_, _, _)
\* the first loop of is_file_excluded
AnyDirectory(tree, dirs, file) ==
    IF dirs = <<>> THEN FALSE
    ELSE IF startswith(as_posix(file), as_posix(evaluate_relative_path(tree, Head(dirs))))
         THEN TRUE
         ELSE AnyDirectory(tree, Tail(dirs), file)

RECURSIVE AnyFile(_, _, _)
\* the second loop of is_file_excluded
AnyFile(tree, fs, file) ==
    IF fs = <<>> THEN FALSE
    ELSE IF as_posix(file) = as_posix(evaluate_relative_path(tree, Head(fs)))
         THEN TRUE
         ELSE AnyFile(tree, Tail(fs), file)

\* a variant that matches excluded directories by whole path segments
is_file_excluded_BySegments(tree, dirs, file) ==
    \/ \E i \in DOMAIN dirs :
          LET d == evaluate_relative_path(tree, dirs[i])
          IN Len(d.parts) <= Len(file.parts) /\ SubSeq(file.parts, 1, Len(d.parts)) = d.parts
    \/ AnyFile(tree, EXCLUDE_FILES, file)

is_file_excluded(tree, dirs, file) ==
    IF AnyDirectory(tree, dirs, file) THEN TRUE
    ELSE IF AnyFile(tree, EXCLUDE_FILES, file) THEN TRUE
    ELSE FALSE

Suffix_cpp == <<".", "c", "p", "p">>
Suffix_c   == <<".", "c">>
Suffix_h   == <<".", "h">>

\* itertools.chain of the three globs
Candidates(tree) ==
    LET search_path == evaluate_relative_path(tree, SEARCH_PATH)
    IN glob(tree, search_path, Suffix_cpp) \o glob(tree, search_path, Suffix_c)
         \o glob(tree, search_path, Suffix_h)

RECURSIVE KeepNotExcluded(_, _, _)
KeepNotExcluded(tree, dirs, cands) ==
    IF cands = <<>> THEN <<>>
    ELSE LET file == resolve(tree, Head(cands))
         IN (IF is_file_excluded(tree, dirs, file) THEN <<>> ELSE <<file>>)
              \o KeepNotExcluded(tree, dirs, Tail(cands))

\* format.py: generate_list_of_files_to_format
generate_list_of_files_to_format(tree, dirs) ==
    [raised |-> "", files |-> KeepNotExcluded(tree, dirs, Candidates(tree))]

\* formatter.py: Formatter._generate_list_of_files_to_format. The loop body calls
\* self.is_file_excluded, an attribute the class does not have (the method is
\* _is_file_excluded), so the first candidate raises AttributeError.
Formatter_generate_list_of_files_to_format(tree, dirs) ==
    IF Candidates(tree) = <<>> THEN [raised |-> "", files |-> <<>>]
    ELSE [raised |-> "AttributeError", files |-> <<>>]

(* ------------------------------ version check -------------------------- *)
RECURSIVE LStrip(_)
LStrip(b) == IF b # <<>> /\ Head(b) \in {"\r", "\n"} THEN LStrip(Tail(b)) ELSE b

RECURSIVE RStrip(_)
RStrip(b) ==
    IF b # <<>> /\ b[Len(b)] \in {"\r", "\n"} THEN RStrip(SubSeq(b, 1, Len(b) - 1)) ELSE b

\* bytes.strip(b"\r\n")
strip(b) == RStrip(LStrip(b))

\* correct_uncrustify_version, given what "uncrustify --version" printed
correct_uncrustify_version(out) == strip(out) = UNCRUSTIFY_VERSION_TO_CHECK


(* ------------------------------- the state ----------------------------- *)
VARIABLES
    tree,                 \* the project tree below SEARCH_PATH: entries [path, target]
    EXCLUDE_DIRECTORIES,  \* the module-level list, after the import-time extend
    check,                \* the --check flag of the command line
    tool,                 \* how the installed uncrustify behaves
    variant,              \* which script each invocation runs
    cwd,                  \* the working directory of each invocation
    disk,                 \* per working directory: the manifest and the dumps
    pc,                   \* where each invocation is
    files,                \* the local "files" of format_cpp
    warned,               \* the version WARNING was printed
    command,              \* the command line handed to Popen
    toolRead,             \* the manifest the external tool found when it started
    exit_code,            \* the local "exit_code" of format_cpp
    status,               \* the exit status of the finished process
    raised,               \* the uncaught exception that ended the process, or ""
    trace                 \* the steps of format_cpp in the order they ran

vars == <<tree, EXCLUDE_DIRECTORIES, check, tool, variant, cwd, disk, pc, files,
          warned, command, toolRead, exit_code, status, raised, trace>>

Procs == {1, 2}
Dirs == {"d1", "d2"}
Variants == {"format", "formatter"}

File(parts) == [path |-> AbsPath(parts), target |-> AbsPath(parts)]
Link(parts, to) == [path |-> AbsPath(parts), target |-> AbsPath(to)]

\* the entries a project tree is drawn from
Universe ==
    { File(<<S_w, S_src, S_a_cpp>>),
      File(<<S_w, S_src, S_foo_cpp>>),
      File(<<S_w, S_build, S_x_c>>),
      File(<<S_w, S_buildx, S_y_h>>),
      File(<<S_w, S_src, S_n_txt>>),
      File(<<S_w, S_tests, S_build1, S_t_cpp>>),
      Link(<<S_w, S_src, S_l_cpp>>, <<S_w, S_src, S_a_cpp>>) }

Trees == {t \in SUBSET Universe : Cardinality(t) <= MaxFiles}

Other == "Uncrustify-0.78.1_f"
VersionOutputs ==
    { UNCRUSTIFY_VERSION_TO_CHECK \o <<"\n">>,
      UNCRUSTIFY_VERSION_TO_CHECK \o <<"\r", "\n">>,
      <<Other, "\n">> }

\* "uncrustify --version": not launchable, a non-zero exit, or an output
VersionBehaviours ==
    {[kind |-> k, out |-> <<>>] : k \in {"unlaunchable", "nonzero"}}
      \cup {[kind |-> "prints", out |-> o] : o \in VersionOutputs}

\* the formatting run: Popen fails, or the tool exits with a code
RunBehaviours ==
    {[kind |-> "unlaunchable", code |-> 0]}
      \cup {[kind |-> "exits", code |-> c] : c \in 0..MaxExit}

\* a run behaviour only matters when the version check lets the script go on
Tools ==
    {[version |-> v, run |-> r] : v \in VersionBehaviours, r \in RunBehaviours}
      \ {t \in [version : VersionBehaviours, run : RunBehaviours] :
            t.version.kind # "prints" /\ t.run # [kind |-> "exits", code |-> 0]}

NoManifest == [exists |-> FALSE, writer |-> 0, lines |-> <<>>]
EmptyDir == [manifest |-> NoManifest, dumps |-> {}]
NoCommand == [c |-> <<>>, check_args |-> <<>>, F |-> ""]

InitWorld(trees) ==
    /\ tree \in trees
    /\ EXCLUDE_DIRECTORIES \in
         {StaticExcludeDirectories, StaticExcludeDirectories \o GlobBuild(tree)}
    /\ check \in BOOLEAN
    /\ tool \in Tools
    /\ disk = [d \in Dirs |-> EmptyDir]
    /\ files = [p \in Procs |-> <<>>]
    /\ warned = [p \in Procs |-> FALSE]
    /\ command = [p \in Procs |-> NoCommand]
    /\ toolRead = [p \in Procs |-> NoManifest]
    /\ exit_code = [p \in Procs |-> 0]
    /\ status = [p \in Procs |-> 0]
    /\ raised = [p \in Procs |-> ""]
    /\ trace = [p \in Procs |-> <<>>]

\* one invocation of either script
Init ==
    /\ InitWorld(Trees)
    /\ variant \in {[p \in Procs |-> v] : v \in Variants}
    /\ cwd = [p \in Procs |-> "d1"]
    /\ pc = [p \in Procs |-> IF p = 1 THEN "main" ELSE "off"]

\* both scripts, each in a working directory of its own, in the same world
InitBoth ==
    /\ InitWorld(Trees)
    /\ variant = [p \in Procs |-> IF p = 1 THEN "format" ELSE "formatter"]
    /\ cwd = [p \in Procs |-> IF p = 1 THEN "d1" ELSE "d2"]
    /\ pc = [p \in Procs |-> "main"]

\* the same script started twice in the same working directory
InitRace ==
    /\ InitWorld({t \in SUBSET Universe : Cardinality(t) <= MaxRaceFiles})
    /\ variant \in {[p \in Procs |-> v] : v \in Variants}
    /\ cwd = [p \in Procs |-> "d1"]
    /\ pc = [p \in Procs |-> "main"]

(* ------------------------------- the steps ----------------------------- *)
\* an uncaught exception: traceback, exit status 1
Raise(p, exc) ==
    /\ pc' = [pc EXCEPT ![p] = "exited"]
    /\ raised' = [raised EXCEPT ![p] = exc]
    /\ status' = [status EXCEPT ![p] = 1]

\* a variant that starts with the file selection and never checks the version
Main_SelectFirst(p) ==
    /\ pc[p] = "main"
    /\ pc' = [pc EXCEPT ![p] = "select"]
    /\ UNCHANGED <<tree, EXCLUDE_DIRECTORIES, check, tool, variant, cwd, disk, files,
                   warned, command, toolRead, exit_code, status, raised, trace>>

\* __main__ / Formatter.run: parse the arguments, call format_cpp(args.check)
Main(p) ==
    /\ pc[p] = "main"
    /\ pc' = [pc EXCEPT ![p] = IF variant[p] = "format" THEN "dump" ELSE "version"]
    /\ UNCHANGED <<tree, EXCLUDE_DIRECTORIES, check, tool, variant, cwd, disk, files,
                   warned, command, toolRead, exit_code, status, raised, trace>>

\* format.py only: the exclusion lists are written to a file named after the time
DumpExcludes(p) ==
    /\ pc[p] = "dump"
    /\ \E now \in 1..MaxTime :
         LET f == [stamp |-> now, writer |-> p,
                   text |-> <<EXCLUDE_DIRECTORIES, EXCLUDE_FILES>>]
             d == disk[cwd[p]]
         IN disk' = [disk EXCEPT ![cwd[p]] =
                [d EXCEPT !.dumps = {x \in d.dumps : x.stamp # now} \cup {f}]]
    /\ pc' = [pc EXCEPT ![p] = "version"]
    /\ trace' = [trace EXCEPT ![p] = Append(@, "dump")]
    /\ UNCHANGED <<tree, EXCLUDE_DIRECTORIES, check, tool, variant, cwd, files,
                   warned, command, toolRead, exit_code, status, raised>>

\* if not correct_uncrustify_version(): print(WARNING)
CheckVersion(p) ==
    /\ pc[p] = "version"
    /\ trace' = [trace EXCEPT ![p] = Append(@, "version")]
    /\ IF tool.version.kind = "unlaunchable"
       THEN Raise(p, "FileNotFoundError") /\ UNCHANGED warned
       ELSE IF tool.version.kind = "nonzero"
       THEN Raise(p, "CalledProcessError") /\ UNCHANGED warned
       ELSE /\ warned' = [warned EXCEPT ![p] = ~correct_uncrustify_version(tool.version.out)]
            /\ pc' = [pc EXCEPT ![p] = "select"]
            /\ UNCHANGED <<status, raised>>
    /\ UNCHANGED <<tree, EXCLUDE_DIRECTORIES, check, tool, variant, cwd, disk, files,
                   command, toolRead, exit_code>>

\* files = generate_list_of_files_to_format()
GenerateList(p) ==
    /\ pc[p] = "select"
    /\ trace' = [trace EXCEPT ![p] = Append(@, "select")]
    /\ LET r == IF variant[p] = "format"
                THEN generate_list_of_files_to_format(tree, EXCLUDE_DIRECTORIES)
                ELSE Formatter_generate_list_of_files_to_format(tree, EXCLUDE_DIRECTORIES)
       IN IF r.raised # ""
          THEN Raise(p, r.raised) /\ UNCHANGED files
          ELSE /\ files' = [files EXCEPT ![p] = r.files]
               /\ pc' = [pc EXCEPT ![p] = "manifest"]
               /\ UNCHANGED <<status, raised>>
    /\ UNCHANGED <<tree, EXCLUDE_DIRECTORIES, check, tool, variant, cwd, disk,
                   warned, command, toolRead, exit_code>>


\* a variant with the two modes swapped
check_args_Swapped(c) == IF c THEN <<"--replace", "--no-backup", "--if-changed">> ELSE <<"--check">>

\* check_args, as the words shlex.split makes of it
check_args(c) == IF c THEN <<"--check">> ELSE <<"--replace", "--no-backup", "--if-changed">>

RECURSIVE Lines(_)
\* one as_posix() line per file
Lines(fs) == IF fs = <<>> THEN <<>> ELSE <<as_posix(Head(fs))>> \o Lines(Tail(fs))

\* a variant that writes the paths under another name than the one it later removes
WriteManifest_OtherName(p) ==
    /\ pc[p] = "manifest"
    /\ trace' = [trace EXCEPT ![p] = Append(@, "manifest")]
    /\ pc' = [pc EXCEPT ![p] = "launch"]
    /\ UNCHANGED <<tree, EXCLUDE_DIRECTORIES, check, tool, variant, cwd, disk, files,
                   warned, command, toolRead, exit_code, status, raised>>

\* with open(temp_file_name, "w") as f: write every path
WriteManifest(p) ==
    /\ pc[p] = "manifest"
    /\ trace' = [trace EXCEPT ![p] = Append(@, "manifest")]
    /\ disk' = [disk EXCEPT ![cwd[p]].manifest =
                    [exists |-> TRUE, writer |-> p, lines |-> Lines(files[p])]]
    /\ pc' = [pc EXCEPT ![p] = "launch"]
    /\ UNCHANGED <<tree, EXCLUDE_DIRECTORIES, check, tool, variant, cwd, files,
                   warned, command, toolRead, exit_code, status, raised>>

\* execute_command, up to Popen: the tool starts and opens the file -F names
Launch(p) ==
    /\ pc[p] = "launch"
    /\ trace' = [trace EXCEPT ![p] = Append(@, "invoke")]
    /\ command' = [command EXCEPT ![p] =
                     [c |-> as_posix(CONFIG_PATH(variant[p])),
                      check_args |-> check_args(check),
                      F |-> temp_file_name]]
    /\ IF tool.run.kind = "unlaunchable"
       THEN Raise(p, "OSError") /\ UNCHANGED toolRead
       ELSE /\ toolRead' = [toolRead EXCEPT ![p] = disk[cwd[p]].manifest]
            /\ pc' = [pc EXCEPT ![p] = "wait"]
            /\ UNCHANGED <<status, raised>>
    /\ UNCHANGED <<tree, EXCLUDE_DIRECTORIES, check, tool, variant, cwd, disk, files,
                   warned, exit_code>>

\* execute_command, p.wait() to return p.returncode
Wait(p) ==
    /\ pc[p] = "wait"
    /\ exit_code' = [exit_code EXCEPT ![p] = tool.run.code]
    /\ pc' = [pc EXCEPT ![p] = "remove"]
    /\ UNCHANGED <<tree, EXCLUDE_DIRECTORIES, check, tool, variant, cwd, disk, files,
                   warned, command, toolRead, status, raised, trace>>

\* os.remove(temp_file_name)
RemoveManifest(p) ==
    /\ pc[p] = "remove"
    /\ trace' = [trace EXCEPT ![p] = Append(@, "cleanup")]
    /\ IF ~disk[cwd[p]].manifest.exists
       THEN Raise(p, "FileNotFoundError") /\ UNCHANGED disk
       ELSE /\ disk' = [disk EXCEPT ![cwd[p]].manifest = NoManifest]
            /\ pc' = [pc EXCEPT ![p] = "report"]
            /\ UNCHANGED <<status, raised>>
    /\ UNCHANGED <<tree, EXCLUDE_DIRECTORIES, check, tool, variant, cwd, files,
                   warned, command, toolRead, exit_code>>

\* the exit status exit(n) gives the process
ExitStatus(n) == n % 256

\* a variant that ends every failed run with exit(1)
Report_ExitOne(p) ==
    /\ pc[p] = "report"
    /\ trace' = [trace EXCEPT ![p] = Append(@, "exit")]
    /\ status' = [status EXCEPT ![p] = IF exit_code[p] # 0 THEN 1 ELSE 0]
    /\ pc' = [pc EXCEPT ![p] = "exited"]
    /\ UNCHANGED <<tree, EXCLUDE_DIRECTORIES, check, tool, variant, cwd, disk, files,
                   warned, command, toolRead, exit_code, raised>>

\* if exit_code != 0: print(COMMAND FAILED); exit(exit_code) -- else fall off the end
Report(p) ==
    /\ pc[p] = "report"
    /\ trace' = [trace EXCEPT ![p] = Append(@, "exit")]
    /\ status' = [status EXCEPT ![p] =
                    IF exit_code[p] # 0 THEN ExitStatus(exit_code[p]) ELSE 0]
    /\ pc' = [pc EXCEPT ![p] = "exited"]
    /\ UNCHANGED <<tree, EXCLUDE_DIRECTORIES, check, tool, variant, cwd, disk, files,
                   warned, command, toolRead, exit_code, raised>>

Next ==
    \E p \in Procs :
        \/ Main(p)
        \/ DumpExcludes(p)
        \/ CheckVersion(p)
        \/ GenerateList(p)
        \/ WriteManifest(p)
        \/ Launch(p)
        \/ Wait(p)
        \/ RemoveManifest(p)
        \/ Report(p)

Spec == Init /\ [][Next]_vars
SpecBoth == InitBoth /\ [][Next]_vars
SpecRace == InitRace /\ [][Next]_vars


(* ------------------------------- properties ---------------------------- *)
Range(q) == {q[i] : i \in DOMAIN q}
Count(q, x) == Cardinality({i \in DOMAIN q : q[i] = x})
Ran(p, step) == step \in Range(trace[p])
Exited(p) == pc[p] = "exited"

\* character by character: pre is a prefix of s
PrefixOf(pre, s) == Len(pre) <= Len(s) /\ \A i \in 1..Len(pre) : s[i] = pre[i]

\* the exclusion rule of the data model, on the characters of a resolved path
ExclusionMatches(file) ==
    \/ \E d \in Range(EXCLUDE_DIRECTORIES) :
          PrefixOf(as_posix(evaluate_relative_path(tree, d)), as_posix(file))
    \/ \E f \in Range(EXCLUDE_FILES) :
          as_posix(evaluate_relative_path(tree, f)) = as_posix(file)

HasSourceExtension(path) ==
    \E suf \in {Suffix_cpp, Suffix_c, Suffix_h} :
        LET n == Name(path)
        IN Len(n) >= Len(suf) /\ \A i \in 1..Len(suf) : n[Len(n) - Len(suf) + i] = suf[i]

\* the entries the selector has to list
Selectable == {e \in tree : HasSourceExtension(e.path) /\ ~ExclusionMatches(resolve(tree, e.path))}

\* C1: once the selector of either script has run, it has returned a list, and every
\* file of the tree with extension .cpp, .c or .h that matches no exclusion entry is
\* in that list exactly once.
C1_EachSelectableFileOnce ==
    \A p \in Procs : Ran(p, "select") =>
        /\ raised[p] # "AttributeError"
        /\ \A e \in Selectable : Count(files[p], resolve(tree, e.path)) = 1

\* C2: the candidate list never holds a file whose resolved path starts with the
\* resolved path of an excluded directory (as a string) or equals that of an excluded
\* file; every other file with a source extension is in the list the selector returns.
C2_ExcludedNeverListed ==
    \A p \in Procs : Ran(p, "select") =>
        /\ \A i \in DOMAIN files[p] : ~ExclusionMatches(files[p][i])
        /\ (variant[p] = "format" =>
              \A e \in Selectable : resolve(tree, e.path) \in Range(files[p]))

\* C2 witness: a file of a directory "buildx", excluded only because "/w/buildx/y.h"
\* starts with "/w/build", was left out of a list that kept another file.
C2_Witness ==
    \E p \in Procs :
        /\ Ran(p, "select") /\ variant[p] = "format"
        /\ File(<<S_w, S_buildx, S_y_h>>) \in tree
        /\ files[p] = <<AbsPath(<<S_w, S_src, S_a_cpp>>)>>

\* C3: a process that got the tool's exit code back ends with that code as its exit
\* status: the code itself when it is not 0, and 0 when it is 0.
C3_ExitStatusIsToolCode ==
    \A p \in Procs : (Exited(p) /\ Ran(p, "cleanup")) =>
        /\ raised[p] = ""
        /\ exit_code[p] = tool.run.code
        /\ status[p] = tool.run.code

\* C3 witness: a run ended with a tool exit code other than 0 and 1.
C3_Witness ==
    \E p \in Procs : Exited(p) /\ Ran(p, "cleanup") /\ status[p] = MaxExit /\ MaxExit > 1

\* C4: when an invocation has run to process exit, uncrustify_temp.txt does not exist.
C4_ManifestGoneAtExit ==
    \A p \in Procs : Exited(p) => ~disk[cwd[p]].manifest.exists

\* C5: in check mode the command line has --check and none of --replace, --no-backup,
\* --if-changed; in rewrite mode it has exactly --replace --no-backup --if-changed;
\* and no step of the wrapper changes the project tree.
C5_CommandFlags ==
    \A p \in Procs : command[p] # NoCommand =>
        IF check
        THEN /\ "--check" \in Range(command[p].check_args)
             /\ Range(command[p].check_args)
                  \cap {"--replace", "--no-backup", "--if-changed"} = {}
        ELSE /\ command[p].check_args = <<"--replace", "--no-backup", "--if-changed">>
             /\ "--check" \notin Range(command[p].check_args)

C6_MismatchOnlyWarns ==
    \A p \in Procs : (Exited(p) /\ warned[p] /\ tool.run.kind = "exits") =>
        /\ Ran(p, "manifest")
        /\ Count(trace[p], "invoke") = 1
        /\ status[p] = tool.run.code

\* C7: once a process has exited, no file it created is left on disk.
C7_NothingPersists ==
    \A p \in Procs : Exited(p) =>
        /\ ~(disk[cwd[p]].manifest.exists /\ disk[cwd[p]].manifest.writer = p)
        /\ {f \in disk[cwd[p]].dumps : f.writer = p} = {}

Steps(p) == SelectSeq(trace[p], LAMBDA s : s # "dump")
IsPrefix(a, b) == Len(a) <= Len(b) /\ SubSeq(b, 1, Len(a)) = a

\* C8 as stated: the steps run in the order select files, check version, write
\* manifest, invoke tool, clean up, exit.
C8_SelectThenVersion ==
    \A p \in Procs :
        IsPrefix(Steps(p), <<"select", "version", "manifest", "invoke", "cleanup", "exit">>)

\* C8 as amended: the steps run in the order check version, select files, write
\* manifest, invoke tool, clean up, exit; a run that fails stops at the failing step.
C8_VersionThenSelect ==
    \A p \in Procs :
        /\ IsPrefix(Steps(p), <<"version", "select", "manifest", "invoke", "cleanup", "exit">>)
        /\ (Exited(p) /\ raised[p] = "" => Len(Steps(p)) = 6)

\* C8 witness: a run went through all six steps.
C8_Witness ==
    \E p \in Procs :
        Steps(p) = <<"version", "select", "manifest", "invoke", "cleanup", "exit">>

Others(p) == {q \in Procs \ {p} : pc[q] # "off" /\ cwd[q] = cwd[p]}

\* C9: nothing coordinates two runs in one directory. A tool that starts reads the
\* manifest then on disk; when that is not the one its own run wrote, the other run has
\* written or removed it. A run whose os.remove finds no manifest ends with the
\* uncaught error (status 1), after the other run removed the file.
C9_RunsRaceOnManifest ==
    \A p \in Procs :
        /\ (Ran(p, "invoke") /\ raised[p] # "OSError"
              /\ toolRead[p] # [exists |-> TRUE, writer |-> p, lines |-> Lines(files[p])]) =>
             \E q \in Others(p) : Ran(q, "manifest")
        /\ (Ran(p, "cleanup") /\ raised[p] # "") =>
             /\ raised[p] = "FileNotFoundError" /\ status[p] = 1 /\ Exited(p)
             /\ \E q \in Others(p) : Ran(q, "cleanup") /\ raised[q] = ""

\* C9 witness: one tool read the manifest the other run wrote over its own, the other
\* tool found the manifest already removed, and that run's os.remove failed, ending it
\* with status 1 where the tool had exited with another code.
C9_Witness ==
    \E p \in Procs : \E q \in Procs \ {p} :
        /\ toolRead[p].exists /\ toolRead[p].writer = q
        /\ Ran(q, "invoke") /\ ~toolRead[q].exists
        /\ Ran(q, "cleanup") /\ raised[q] = "FileNotFoundError"
        /\ status[q] = 1 /\ exit_code[q] # 1

Launched(p) == Ran(p, "invoke") /\ raised[p] # "OSError"

\* C10: on the same tree, flag and tool, format.py (1) and formatter.py (2) reach the
\* tool with the same manifest and mode flags and end with the same exit status.
C10_SameUtility ==
    (Exited(1) /\ Exited(2)) =>
        /\ Launched(1) <=> Launched(2)
        /\ Launched(1) => /\ toolRead[1].lines = toolRead[2].lines
                          /\ command[1].check_args = command[2].check_args
        /\ status[1] = status[2]

====
